---- MODULE Spec2Model ----
(***************************************************************************)
(* NASA image-of-the-day downloader (crawlStars.py).                       *)
(*                                                                         *)
(* Strings are sequences of ISO-8859-1 character codes, so that ordinary   *)
(* string comparison, slicing, replacing and joining are computed the way  *)
(* Python computes them.  A line of a fetched document is represented by   *)
(* the outcome of re.match on it: the captured groups, or no match.        *)
(***************************************************************************)
EXTENDS Integers, Sequences, FiniteSets, TLC

VARIABLES
    pc,          \* position of the single thread of control
    URL_BASE,    \* configured archive URL (crawlStars.py:19)
    DATE_START,  \* configured start date, ISO 8601 string (crawlStars.py:23)
    base_url,    \* save_images' base_url argument
    lines,       \* index lines load_archive has read so far, in document order
    idxConn,     \* index stream of load_archive: "new", "open", "closed"
    entry,       \* the tuple the generator is suspended on (NoEntry if none)
    url_page,    \* save_images' local url_page
    pageDoc,     \* the page find_image_on_page has just scanned (the content
                 \* of its stream, gone with the next step)
    pageOpen,    \* page stream of find_image_on_page is open
    img_link,    \* save_images' local img_link
    url_img,     \* save_images' local url_img
    filename,    \* save_images' local filename
    imgOpen,     \* image stream of save_image_from_url is open
    fileOpen,    \* output file of save_image_from_url is open
    log,         \* history of the run's reads, fetches and writes
    exc,         \* class of the exception that ended the run ("none" if none)
    failure,     \* what failed: "none", "transport", "filesystem", "interrupt"
    errLog,      \* number of logging.error lines emitted by main
    notice       \* number of "Interrupted by user." messages printed

vars == <<pc, URL_BASE, DATE_START, base_url, lines, idxConn, entry, url_page,
          pageDoc, pageOpen, img_link, url_img, filename, imgOpen, fileOpen,
          log, exc, failure, errLog, notice>>

\* Bounds of the model: length of the index document and of a page document.
MaxLines == 3
MaxPageLines == 2

(***************************************************************************)
(* Strings                                                                 *)
(***************************************************************************)
SLASH == 47
DASH == 45

\* n as two, resp. four, decimal digits ('0' is 48).
D2(n) == <<48 + ((n \div 10) % 10), 48 + (n % 10)>>
D4(n) == D2(n \div 100) \o D2(n % 100)

\* Python's s1 >= s2 on str: code point order, a proper prefix is smaller.
RECURSIVE StrGE(_, _)
StrGE(s, t) ==
    IF t = <<>> THEN TRUE
    ELSE IF s = <<>> THEN FALSE
    ELSE IF s[1] # t[1] THEN s[1] > t[1]
    ELSE StrGE(Tail(s), Tail(t))

\* s.replace(c, "") for a one-character c.
RECURSIVE Remove(_, _)
Remove(s, c) ==
    IF s = <<>> THEN <<>>
    ELSE IF s[1] = c THEN Remove(Tail(s), c)
    ELSE <<s[1]>> \o Remove(Tail(s), c)

\* Python's s[i:j] for 0 <= i <= j (clipped to the length of s).
Slice(s, i, j) ==
    LET hi == IF j < Len(s) THEN j ELSE Len(s)
    IN  IF i >= hi THEN <<>> ELSE SubSeq(s, i + 1, hi)

\* (faulty variant: the separator is missing)
JoinNoSeparator(a, b) == a \o b

\* "/".join([a, b])
Join(a, b) == a \o <<SLASH>> \o b

(***************************************************************************)
(* Constants of the program                                                *)
(***************************************************************************)
\* IMG_FILENAME_FORMAT = "image_{date}.jpg": the text before and after the
\* placeholder that save_images replaces.
IMG_FILENAME_PREFIX == <<105,109,97,103,101,95>>
IMG_FILENAME_SUFFIX == <<46,106,112,103>>

\* "ap", the prefix load_archive puts before the date (f"ap{date_fixed}").
PAGE_PREFIX == <<97,112>>

\* The absent value (Python's None).  No captured group equals it: every
\* group of both patterns matches at least one character.
None == <<>>

\* A local variable that has not been assigned yet.
Unset == <<>>

(***************************************************************************)
(* Inputs: configuration and the documents the server returns              *)
(***************************************************************************)
\* "https://apod.nasa.gov/apod/archivepix.html" (the value in the source) and
\* "https://apod.nasa.gov/apod/", an archive URL that ends with a separator.
UrlBases ==
    { <<104,116,116,112,115,58,47,47,97,112,111,100,46,110,97,115,97,46,103,
        111,118,47,97,112,111,100,47,97,114,99,104,105,118,101,112,105,120,
        46,104,116,109,108>>,
      <<104,116,116,112,115,58,47,47,97,112,111,100,46,110,97,115,97,46,103,
        111,118,47,97,112,111,100,47>> }

\* yyyy-MM-dd
Iso(day) == D4(day[1]) \o <<DASH>> \o D2(day[2]) \o <<DASH>> \o D2(day[3])

\* The days used as start dates and as dates of index rows.
StartDays == { <<2020, 1, 1>>, <<2020, 1, 2>> }
RowDays == { <<1999, 12, 31>>, <<2020, 1, 1>>, <<2020, 1, 15>> }

\* day a is on or after day b
DayGE(a, b) ==
    a[1] * 10000 + a[2] * 100 + a[3] >= b[1] * 10000 + b[2] * 100 + b[3]

\* An index line on which PATTERN_SUBPAGE matches, as its three groups.  `day`
\* is the day the row stands for (<<0, 0, 0>> when the link carries no date).
IndexRow(day, when, link, title) ==
    [match |-> TRUE, day |-> day, when |-> when, link |-> link, title |-> title]

\* The archive's row for a day: "yyyy ...:  <a href="apYYMMDD.html">title</a>"
ArchiveRow(day) ==
    IndexRow(day,
             D4(day[1]) \o <<32>> \o D2(day[2]) \o <<32>> \o D2(day[3]),
             PAGE_PREFIX \o D2(day[1] % 100) \o D2(day[2]) \o D2(day[3])
                 \o <<46,104,116,109,108>>,
             <<84>>)

\* A row whose link is the absolute path "/a" and carries no date.
OddRow == IndexRow(<<0, 0, 0>>, D4(2020) \o <<32,120>>, <<47,97>>, <<84>>)

\* A row whose link is "b.htm": shorter than eight characters, no date.
ShortRow == IndexRow(<<0, 0, 0>>, D4(2020) \o <<32,121>>, <<98,46,104,116,109>>, <<84>>)

\* An index line on which PATTERN_SUBPAGE does not match.
OtherLine ==
    [match |-> FALSE, day |-> <<0, 0, 0>>, when |-> <<>>, link |-> <<>>,
     title |-> <<>>]

IndexLines == { ArchiveRow(day) : day \in RowDays } \cup { OddRow, ShortRow, OtherLine }

\* A page line on which PATTERN_IMAGE matches (ref is its group), or does not.
ImgLine(ref) == [match |-> TRUE, ref |-> ref]
NoImgLine == [match |-> FALSE, ref |-> <<>>]

\* "image/a.jpg" and "/b.jpg"
ImageRefs == { <<105,109,97,103,101,47,97,46,106,112,103>>,
               <<47,98,46,106,112,103>> }

PageLines == { ImgLine(ref) : ref \in ImageRefs } \cup { NoImgLine }
PageDocs == UNION { [1..n -> PageLines] : n \in 0..MaxPageLines }

(***************************************************************************)
(* Pure functions of the program                                           *)
(***************************************************************************)
\* Index of the last '/' of s, 0 if there is none.
LastSlash(s) ==
    LET at == { i \in 1..Len(s) : s[i] = SLASH }
    IN  IF at = {} THEN 0 ELSE CHOOSE i \in at : \A j \in at : j <= i

\* re.sub("/[^/]+$", "", url): the pattern matches from the last '/' when at
\* least one character follows it.
get_parent_url(url) ==
    LET k == LastSlash(url)
    IN  IF k > 0 /\ k < Len(url) THEN SubSeq(url, 1, k - 1) ELSE url

\* date_fixed = date_start.replace("-", "")[2:]
date_fixed(date_start) ==
    LET s == Remove(date_start, DASH) IN Slice(s, 2, Len(s))

\* page_start = f"ap{date_fixed}"
page_start(date_start) == PAGE_PREFIX \o date_fixed(date_start)

\* (faulty variant: the date test is missing)
InRangeAlways(link, start) == TRUE

\* if link >= page_start
InRange(link, start) == StrGE(link, start)

\* (faulty variant: the first match is kept)
RetainFirst(result, line) ==
    IF line.match /\ result = None THEN line.ref ELSE result

\* One iteration of find_image_on_page's loop on `result`.
Retain(result, line) == IF line.match THEN line.ref ELSE result

\* find_image_on_page's loop over the lines of a page, from result = None.
RECURSIVE ScanFrom(_, _)
ScanFrom(doc, result) ==
    IF doc = <<>> THEN result
    ELSE ScanFrom(Tail(doc), Retain(result, Head(doc)))

find_image_on_page(doc) == ScanFrom(doc, None)

\* (faulty variant: the test of img_link is missing)
ImageFoundAlways(img) == TRUE

\* if img_link is not None
ImageFound(img) == img # None

\* (faulty variant: the slice ends one character early)
FileNameShort(link) ==
    IMG_FILENAME_PREFIX \o Slice(link, 2, 7) \o IMG_FILENAME_SUFFIX

\* IMG_FILENAME_FORMAT.replace("{date}", link[2:8])
FileName(link) ==
    IMG_FILENAME_PREFIX \o Slice(link, 2, 8) \o IMG_FILENAME_SUFFIX

\* main's handler: except urllib.error.URLError
Caught(cls) == cls = "URLError"

(***************************************************************************)
(* The run                                                                 *)
(***************************************************************************)
NoEntry == [when |-> <<>>, link |-> <<>>, title |-> <<>>, n |-> 0]

\* One record of the history: op is "line" (index line n was read; flag: it
\* was yielded), "page" (the page of the entry of line n was scanned; flag: an
\* image was found), "image" (its image was opened) or "write" (its file was
\* written).
Event(op, n, flag) == [op |-> op, n |-> n, flag |-> flag]

\* No page has just been scanned.
NoDoc == [scanned |-> FALSE, doc |-> <<>>]

config == <<URL_BASE, DATE_START>>
locals == <<url_page, img_link, url_img, filename>>
outcome == <<exc, failure, errLog, notice>>

Init ==
    /\ pc = "main"
    /\ URL_BASE \in UrlBases
    /\ DATE_START \in { Iso(day) : day \in StartDays }
    /\ base_url = Unset
    /\ lines = <<>>
    /\ idxConn = "new"
    /\ entry = NoEntry
    /\ url_page = Unset
    /\ pageDoc = NoDoc
    /\ pageOpen = FALSE
    /\ img_link = None
    /\ url_img = Unset
    /\ filename = Unset
    /\ imgOpen = FALSE
    /\ fileOpen = FALSE
    /\ log = <<>>
    /\ exc = "none"
    /\ failure = "none"
    /\ errLog = 0
    /\ notice = 0

\* (faulty variant: the generator reads on while an entry is waiting to be processed)
PullingEagerly == pc \in {"pull", "entry"}

\* The generator runs only while save_images' for statement asks it for the
\* next tuple.
Pulling == pc = "pull"

\* An exception of class cls is raised and unwinds the stack.  Every with
\* block of an unwound frame releases its resource.  The generator's with
\* block is unwound only when the exception is raised inside the generator
\* (inGenerator); a suspended generator is closed when it is reclaimed, which
\* happens as main returns when main handled the exception, and later (see
\* GeneratorFinalize) when the exception left main.
Raise(cls, kind, inGenerator) ==
    /\ exc' = cls
    /\ failure' = kind
    /\ pc' = IF Caught(cls) THEN "done"
             ELSE IF cls = "KeyboardInterrupt" THEN "interrupted"
             ELSE "crashed"
    /\ errLog' = IF Caught(cls) THEN errLog + 1 ELSE errLog
    /\ notice' = IF ~Caught(cls) /\ cls = "KeyboardInterrupt"
                 THEN notice + 1 ELSE notice
    /\ pageDoc' = NoDoc
    /\ pageOpen' = FALSE
    /\ imgOpen' = FALSE
    /\ fileOpen' = FALSE
    /\ idxConn' = IF idxConn = "open" /\ (inGenerator \/ Caught(cls))
                  THEN "closed" ELSE idxConn

\* main up to the first iteration of save_images' loop: the generator object
\* is created (its body has not started) and the parent URL is computed.
Main ==
    /\ pc = "main"
    /\ base_url' = get_parent_url(URL_BASE)
    /\ pc' = "pull"
    /\ pageDoc' = NoDoc
    /\ UNCHANGED <<config, lines, idxConn, entry, locals, pageOpen, imgOpen,
                   fileOpen, log, outcome>>

\* load_archive: urlopen(url) succeeds.
OpenIndex ==
    /\ Pulling
    /\ idxConn = "new"
    /\ idxConn' = "open"
    /\ pageDoc' = NoDoc
    /\ UNCHANGED <<pc, config, base_url, lines, entry, locals, pageOpen,
                   imgOpen, fileOpen, log, outcome>>

\* load_archive: urlopen(url) raises URLError.
OpenIndexFail ==
    /\ Pulling
    /\ idxConn = "new"
    /\ Raise("URLError", "transport", TRUE)
    /\ UNCHANGED <<config, base_url, lines, entry, locals, log>>

\* load_archive: one iteration of the loop over the index lines.
ReadLine(line) ==
    /\ Pulling
    /\ idxConn = "open"
    /\ Len(lines) < MaxLines
    /\ lines' = Append(lines, line)
    /\ LET n == Len(lines) + 1
           yields == line.match /\ InRange(line.link, page_start(DATE_START))
       IN  /\ log' = Append(log, Event("line", n, yields))
           /\ entry' = IF yields
                       THEN [when |-> line.when, link |-> line.link,
                             title |-> line.title, n |-> n]
                       ELSE entry
           /\ pc' = IF yields THEN "entry" ELSE pc
    /\ pageDoc' = NoDoc
    /\ UNCHANGED <<config, base_url, idxConn, locals, pageOpen, imgOpen,
                   fileOpen, outcome>>

\* load_archive: reading the next index line fails (connection reset, timeout,
\* truncated body).  The stream raises an OSError or HTTPException, none of
\* which is a URLError.
ReadLineFail ==
    /\ Pulling
    /\ idxConn = "open"
    /\ Raise("OSError", "transport", TRUE)
    /\ UNCHANGED <<config, base_url, lines, entry, locals, log>>

\* load_archive: the index is exhausted; the with block closes the stream, the
\* for statement of save_images ends, save_images and main return.
EndOfIndex ==
    /\ Pulling
    /\ idxConn = "open"
    /\ idxConn' = "closed"
    /\ pc' = "done"
    /\ pageDoc' = NoDoc
    /\ UNCHANGED <<config, base_url, lines, entry, locals, pageOpen, imgOpen,
                   fileOpen, log, outcome>>

\* save_images: url_page is joined; find_image_on_page: urlopen succeeds.
OpenPage ==
    /\ pc = "entry"
    /\ url_page' = Join(base_url, entry.link)
    /\ pageOpen' = TRUE
    /\ pc' = "page"
    /\ pageDoc' = NoDoc
    /\ UNCHANGED <<config, base_url, lines, idxConn, entry, img_link, url_img,
                   filename, imgOpen, fileOpen, log, outcome>>

\* find_image_on_page: urlopen raises URLError.
OpenPageFail ==
    /\ pc = "entry"
    /\ url_page' = Join(base_url, entry.link)
    /\ Raise("URLError", "transport", FALSE)
    /\ UNCHANGED <<config, base_url, lines, entry, img_link, url_img, filename,
                   log>>

\* find_image_on_page: the loop over the page's lines and the return;
\* save_images: the test of img_link.
ScanPage(doc) ==
    /\ pc = "page"
    /\ pageDoc' = [scanned |-> TRUE, doc |-> doc]
    /\ img_link' = find_image_on_page(doc)
    /\ pageOpen' = FALSE
    /\ log' = Append(log, Event("page", entry.n, img_link' # None))
    /\ pc' = IF ImageFound(img_link') THEN "found" ELSE "pull"
    /\ entry' = IF ImageFound(img_link') THEN entry ELSE NoEntry
    /\ UNCHANGED <<config, base_url, lines, idxConn, url_page, url_img,
                   filename, imgOpen, fileOpen, outcome>>

\* find_image_on_page: reading a line of the page fails.
ScanPageFail ==
    /\ pc = "page"
    /\ Raise("OSError", "transport", FALSE)
    /\ UNCHANGED <<config, base_url, lines, entry, locals, log>>

\* save_images: url_img and filename are computed; save_image_from_url:
\* urlopen succeeds.
OpenImage ==
    /\ pc = "found"
    /\ url_img' = Join(base_url, img_link)
    /\ filename' = FileName(entry.link)
    /\ imgOpen' = TRUE
    /\ log' = Append(log, Event("image", entry.n, TRUE))
    /\ pc' = "image"
    /\ pageDoc' = NoDoc
    /\ UNCHANGED <<config, base_url, lines, idxConn, entry, url_page, img_link,
                   pageOpen, fileOpen, outcome>>

\* save_image_from_url: urlopen raises URLError.
OpenImageFail ==
    /\ pc = "found"
    /\ url_img' = Join(base_url, img_link)
    /\ filename' = FileName(entry.link)
    /\ Raise("URLError", "transport", FALSE)
    /\ UNCHANGED <<config, base_url, lines, entry, url_page, img_link, log>>

\* save_image_from_url: open(p, mode="wb") succeeds.
OpenFile ==
    /\ pc = "image"
    /\ fileOpen' = TRUE
    /\ pc' = "file"
    /\ pageDoc' = NoDoc
    /\ UNCHANGED <<config, base_url, lines, idxConn, entry, locals, pageOpen,
                   imgOpen, log, outcome>>

\* save_image_from_url: open(p, mode="wb") raises OSError (no such directory,
\* no permission).
OpenFileFail ==
    /\ pc = "image"
    /\ Raise("OSError", "filesystem", FALSE)
    /\ UNCHANGED <<config, base_url, lines, entry, locals, log>>

\* save_image_from_url: f.write(page.read()), both with blocks are left and
\* the loop of save_images asks for the next tuple.
WriteFile ==
    /\ pc = "file"
    /\ log' = Append(log, Event("write", entry.n, TRUE))
    /\ imgOpen' = FALSE
    /\ fileOpen' = FALSE
    /\ entry' = NoEntry
    /\ pc' = "pull"
    /\ pageDoc' = NoDoc
    /\ UNCHANGED <<config, base_url, lines, idxConn, locals, pageOpen,
                   outcome>>

\* save_image_from_url: page.read() fails (kind "transport") or f.write fails
\* (kind "filesystem"); either raises an OSError that is no URLError.
WriteFileFail(kind) ==
    /\ pc = "file"
    /\ Raise("OSError", kind, FALSE)
    /\ UNCHANGED <<config, base_url, lines, entry, locals, log>>

\* The operator interrupts the run: KeyboardInterrupt is raised where the
\* thread is, inside the generator while it is asked for the next tuple.
Interrupt ==
    /\ pc \in {"main", "pull", "entry", "page", "found", "image", "file"}
    /\ Raise("KeyboardInterrupt", "interrupt", Pulling)
    /\ UNCHANGED <<config, base_url, lines, entry, locals, log>>

\* The suspended generator is reclaimed after an exception left main: its
\* with block is left and the index stream is closed.
GeneratorFinalize ==
    /\ pc \in {"crashed", "interrupted"}
    /\ idxConn = "open"
    /\ idxConn' = "closed"
    /\ pageDoc' = NoDoc
    /\ UNCHANGED <<pc, config, base_url, lines, entry, locals, pageOpen,
                   imgOpen, fileOpen, log, outcome>>

Next ==
    \/ Main
    \/ OpenIndex
    \/ OpenIndexFail
    \/ \E line \in IndexLines : ReadLine(line)
    \/ ReadLineFail
    \/ EndOfIndex
    \/ OpenPage
    \/ OpenPageFail
    \/ \E doc \in PageDocs : ScanPage(doc)
    \/ ScanPageFail
    \/ OpenImage
    \/ OpenImageFail
    \/ OpenFile
    \/ OpenFileFail
    \/ WriteFile
    \/ \E kind \in {"transport", "filesystem"} : WriteFileFail(kind)
    \/ Interrupt
    \/ GeneratorFinalize

Spec == Init /\ [][Next]_vars

(***************************************************************************)
(* Properties                                                              *)
(***************************************************************************)
Ended == pc \in {"done", "crashed", "interrupted"}

\* The day DATE_START names.
StartDay == CHOOSE day \in StartDays : Iso(day) = DATE_START

\* Positions of the history that record the yield of an entry.
Yields == { i \in DOMAIN log : log[i].op = "line" /\ log[i].flag }

\* The index line numbers the generator yielded, in the order of the yields.
YieldedLines ==
    LET y == SelectSeq(log, LAMBDA e : e.op = "line" /\ e.flag)
    IN  [i \in DOMAIN y |-> y[i].n]

\* C1: every entry load_archive yields has link >= pageStart under string
\* comparison, pageStart being the start date without its '-' and without its
\* first two characters (2020-01-01 gives "200101").
C1_YieldedLinkNotBelowPageStart ==
    LET pageStart == D2(StartDay[1] % 100) \o D2(StartDay[2]) \o D2(StartDay[3])
    IN  \A i \in Yields : StrGE(lines[log[i].n].link, pageStart)

\* An entry was yielded and a matching row was filtered out.
C1_Witness ==
    /\ Yields # {}
    /\ \E i \in DOMAIN log :
           log[i].op = "line" /\ ~log[i].flag /\ lines[log[i].n].match

\* C2: load_archive yields, in document order, exactly the lines that match
\* the index-row pattern and whose link carries a date on or after the start
\* date, and nothing for a line that does not match or is dated before it.
\* (Nothing is said here about a matching row whose link carries no date.)
C2_YieldsExactlyRowsOnOrAfterStart ==
    LET yielded == { YieldedLines[i] : i \in DOMAIN YieldedLines }
    IN  /\ \A n \in 1..Len(lines) :
               /\ ~lines[n].match => n \notin yielded
               /\ lines[n].match /\ lines[n].day # <<0, 0, 0>>
                      => (n \in yielded <=> DayGE(lines[n].day, StartDay))
        /\ \A i, j \in DOMAIN YieldedLines :
               i < j => YieldedLines[i] < YieldedLines[j]

\* C3: find_image_on_page returns the reference of the last line of the page
\* that matches the image pattern, however many lines matched before it.
C3_LastMatchWins ==
    pageDoc.scanned =>
        LET doc == pageDoc.doc
            hits == { i \in DOMAIN doc : doc[i].match }
        IN  \A i \in hits : (\A j \in hits : j <= i) => img_link = doc[i].ref

\* A page with two matching lines of different references was scanned.
C3_Witness ==
    /\ pageDoc.scanned
    /\ \E i, j \in DOMAIN pageDoc.doc :
           /\ i < j
           /\ pageDoc.doc[i].match
           /\ pageDoc.doc[j].match
           /\ pageDoc.doc[i].ref # pageDoc.doc[j].ref

\* C4: for an entry whose page has no matching line the locator returns the
\* absent value, save_images fetches no image and writes no file for the
\* entry, and goes on to the next entry without an error.
C4_NoImageNoRetrieval ==
    /\ pageDoc.scanned /\ (\A i \in DOMAIN pageDoc.doc : ~pageDoc.doc[i].match)
           => /\ img_link = None
              /\ pc = "pull"
              /\ exc = "none"
              /\ ~imgOpen
              /\ ~fileOpen
    /\ \A i \in DOMAIN log :
           log[i].op = "page" /\ ~log[i].flag
               => \A j \in DOMAIN log :
                      log[j].n = log[i].n => log[j].op \notin {"image", "write"}

\* After a page without an image the next index line was read.
C4_Witness ==
    \E i, j \in DOMAIN log :
        /\ i < j
        /\ log[i].op = "page" /\ ~log[i].flag
        /\ log[j].op = "line"

\* C5: the filename passed to the retriever is "image_", the characters at
\* (zero-indexed) positions 2..7 of the entry's link, and ".jpg"; it is a
\* function of the link alone.
C5_FilenameFromLink ==
    pc \in {"image", "file"} =>
        LET at == { k \in 2..7 : k < Len(entry.link) }
            m == Cardinality(at)
        IN  /\ Len(filename) = 6 + m + 4
            /\ SubSeq(filename, 1, 6) = <<105,109,97,103,101,95>>
            /\ \A k \in at : filename[5 + k] = entry.link[k + 1]
            /\ SubSeq(filename, 7 + m, 10 + m) = <<46,106,112,103>>

\* The retriever was invoked for the entry ap200115.html.
C5_Witness ==
    /\ pc = "image"
    /\ entry.link = <<97,112,50,48,48,49,49,53,46,104,116,109,108>>
    /\ filename = <<105,109,97,103,101,95,50,48,48,49,49,53,46,106,112,103>>

\* Number of '/' at the end, resp. at the start, of s.
TrailingSlashes(s) ==
    Cardinality({ i \in 1..Len(s) : \A j \in i..Len(s) : s[j] = SLASH })
LeadingSlashes(s) ==
    Cardinality({ i \in 1..Len(s) : \A j \in 1..i : s[j] = SLASH })

\* Length of the run of '/' of url that position k lies in (0 if url[k] is
\* no '/').
SeparatorRun(url, k) ==
    Cardinality({ i \in 1..Len(url) :
                    \A j \in (IF i < k THEN i ELSE k)..(IF i < k THEN k ELSE i) :
                        url[j] = SLASH })

\* C6 as stated: whatever the base ends with and the link starts with, the
\* joined URL has exactly one separator between base and link.
C6_ExactlyOneSeparator ==
    /\ url_page # Unset => SeparatorRun(url_page, Len(base_url) + 1) = 1
    /\ url_img # Unset => SeparatorRun(url_img, Len(base_url) + 1) = 1

\* C6 amended: the join puts one '/' between base and link and keeps both as
\* they are, so the separators at the junction are that one, the '/' the base
\* ends with and the '/' the link starts with.
C6_OneSeparatorAdded ==
    /\ pc \in {"page", "found", "image", "file"} =>
           /\ SeparatorRun(url_page, Len(base_url) + 1)
                  = 1 + TrailingSlashes(base_url) + LeadingSlashes(entry.link)
           /\ Len(url_page) = Len(base_url) + 1 + Len(entry.link)
    /\ pc \in {"image", "file"} =>
           /\ SeparatorRun(url_img, Len(base_url) + 1)
                  = 1 + TrailingSlashes(base_url) + LeadingSlashes(img_link)
           /\ Len(url_img) = Len(base_url) + 1 + Len(img_link)

\* An image URL was joined from a base without a trailing '/' and a reference
\* that starts with '/'.
C6_Witness ==
    /\ pc = "image"
    /\ LeadingSlashes(img_link) = 1
    /\ TrailingSlashes(base_url) = 0
    /\ SeparatorRun(url_img, Len(base_url) + 1) = 2

\* C7: a transport failure in any network operation ends the run, is logged
\* exactly once by main and does not propagate past main.
C7_TransportFailureLoggedAndContained ==
    failure = "transport" => Ended /\ errLog = 1 /\ pc = "done"

\* C8: the generator reads past the line of entry i only when save_images
\* asks for the next entry: before the line of a later entry is read, the page
\* of entry i was fetched and, if a reference was found, its image fetched and
\* its file written; entries are processed in index order, each page and
\* image at most once.
C8_LazySequential ==
    /\ \A p, q \in DOMAIN log :
           p < q /\ log[p].op = "line" /\ log[q].op = "line"
               => /\ log[p].n < log[q].n
                  /\ log[p].flag =>
                         \E r \in (p + 1)..(q - 1) :
                             /\ log[r].op = "page" /\ log[r].n = log[p].n
                             /\ log[r].flag =>
                                    \E s, t \in (r + 1)..(q - 1) :
                                        /\ s < t
                                        /\ log[s] = Event("image", log[p].n, TRUE)
                                        /\ log[t] = Event("write", log[p].n, TRUE)
    /\ \A r, s \in DOMAIN log :
           log[r].op # "line" /\ log[r].op = log[s].op /\ log[r].n = log[s].n
               => r = s
    /\ \A r \in DOMAIN log :
           log[r].op # "line"
               => \E p \in 1..(r - 1) :
                      /\ log[p] = Event("line", log[r].n, TRUE)
                      /\ \A q \in (p + 1)..(r - 1) : log[q].op # "line"

\* Two entries were yielded and the first one's file was written in between.
C8_Witness ==
    \E p, t, q \in DOMAIN log :
        /\ p < t /\ t < q
        /\ log[p].op = "line" /\ log[p].flag
        /\ log[t] = Event("write", log[p].n, TRUE)
        /\ log[q].op = "line" /\ log[q].flag

\* C9: once control has left main, on whatever path, no connection and no
\* file handle the run opened is still open.
C9_AllReleasedAfterMain ==
    Ended => idxConn # "open" /\ ~pageOpen /\ ~imgOpen /\ ~fileOpen

\* C10: every failure that ends the run surfaces as a single log line at the
\* outermost boundary; stated for the failures C7 does not cover, the
\* filesystem failures of save_image_from_url.
C10_FilesystemFailureLogged ==
    failure = "filesystem" => Ended /\ errLog = 1

====
